---------------------------- MODULE Spec2Model ----------------------------
(***************************************************************************)
(* Penelope: company-name segmentation, scoring and batch matching.        *)
(*                                                                         *)
(* Python strings are sequences of one-character strings, so that offsets, *)
(* slices and case are those of the code.  An optional value (a Python     *)
(* value that may be None) is None == <<>> or Some(v) == <<v>>.            *)
(***************************************************************************)
EXTENDS Integers, Sequences, FiniteSets, TLC

(***************************************************************************)
(* Characters and the str methods the code uses.                           *)
(***************************************************************************)
Uppercase == << "A","B","C","D","E","F","G","H","I","J","K","L","M",
                "N","O","P","Q","R","S","T","U","V","W","X","Y","Z" >>

Lowercase == << "a","b","c","d","e","f","g","h","i","j","k","l","m",
                "n","o","p","q","r","s","t","u","v","w","x","y","z" >>

Digits == << "0","1","2","3","4","5","6","7","8","9" >>

\* The characters of the model in code-point order (the order sorted() uses).
Chars == << "\t", "\n", " ", "&", "(", ")", ",", "-", ".", "/" >> \o Digits
         \o Uppercase \o << "_" >> \o Lowercase

Range(s) == { s[i] : i \in DOMAIN s }

UpperSet == Range(Uppercase)

LowerSet == Range(Lowercase)

DigitSet == Range(Digits)

SpaceSet == { "\t", "\n", " " }

\* ord(c), up to an order-preserving renumbering
OrdOf == [ c \in Range(Chars) |-> CHOOSE n \in DOMAIN Chars : Chars[n] = c ]

LowerOf == [ c \in UpperSet |-> Lowercase[CHOOSE n \in DOMAIN Uppercase : Uppercase[n] = c] ]

isupper(c) == c \in UpperSet

isspace(c) == c \in SpaceSet

\* \w of the re module on ASCII text
IsWordChar(c) == c \in UpperSet \cup LowerSet \cup DigitSet \cup { "_" }

lower_char(c) == IF c \in UpperSet THEN LowerOf[c] ELSE c

\* str.lower()
lower(s) == [ i \in 1..Len(s) |-> lower_char(s[i]) ]

\* s[a:b] of Python, 0-based and half-open, with a, b already within 0..len(s)
Slice(s, a, b) == SubSeq(s, a + 1, b)

\* str.lstrip()
lstrip(s) ==
    LET keep == { i \in 1..Len(s) : ~isspace(s[i]) }
    IN  IF keep = {} THEN <<>>
        ELSE SubSeq(s, CHOOSE i \in keep : \A j \in keep : i <= j, Len(s))

\* str.strip()
strip(s) ==
    LET keep == { i \in 1..Len(s) : ~isspace(s[i]) }
    IN  IF keep = {} THEN <<>>
        ELSE SubSeq(s, CHOOSE i \in keep : \A j \in keep : i <= j,
                       CHOOSE i \in keep : \A j \in keep : i >= j)

\* An optional value: None, or Some(v)
None == <<>>

Some(v) == << v >>

\* Python's truth value of an optional string: None and "" are falsy
Falsy(o) == o = None \/ o[1] = <<>>

(***************************************************************************)
(* fuzzywuzzy.fuzz as the scorer calls it (batch_process.py:105-107,       *)
(* app.py:275-277), on the library's pure-Python path: difflib's           *)
(* SequenceMatcher, no junk heuristic (strings shorter than 200).          *)
(***************************************************************************)
Min(x, y) == IF x <= y THEN x ELSE y

SetMax(S) == CHOOSE x \in S : \A y \in S : y <= x

\* Length of the common run of a from i and b from j (0-based) inside the window
RunLen(a, b, i, j, ahi, bhi) ==
    LET maxk == Min(ahi - i, bhi - j)
    IN  CHOOSE k \in 0..maxk :
            /\ \A d \in 0..(k - 1) : a[i + d + 1] = b[j + d + 1]
            /\ (k = maxk \/ a[i + k + 1] # b[j + k + 1])

\* SequenceMatcher.find_longest_match: the longest block, the earliest in a
\* among the longest and the earliest in b among those; <<alo, blo, 0>> if none
find_longest_match(a, b, alo, ahi, blo, bhi) ==
    LET runs == { <<i, j, RunLen(a, b, i, j, ahi, bhi)>> :
                      i \in alo..(ahi - 1), j \in blo..(bhi - 1) }
        best == SetMax({ r[3] : r \in runs } \cup {0})
        long == { r \in runs : r[3] = best }
    IN  IF best = 0 THEN <<alo, blo, 0>>
        ELSE CHOOSE r \in long :
                 \A q \in long : r[1] < q[1] \/ (r[1] = q[1] /\ r[2] <= q[2])

\* SequenceMatcher.get_matching_blocks without the closing sentinel.  Adjacent
\* blocks are left unmerged: they lie on one diagonal j - i and have one sum.
RECURSIVE matching_blocks(_, _, _, _, _, _)
matching_blocks(a, b, alo, ahi, blo, bhi) ==
    IF alo >= ahi \/ blo >= bhi THEN {}
    ELSE LET m == find_longest_match(a, b, alo, ahi, blo, bhi)
         IN  IF m[3] = 0 THEN {}
             ELSE {m} \cup matching_blocks(a, b, alo, m[1], blo, m[2])
                      \cup matching_blocks(a, b, m[1] + m[3], ahi, m[2] + m[3], bhi)

RECURSIVE SetSum(_)
SetSum(S) ==
    IF S = {} THEN 0
    ELSE LET x == CHOOSE y \in S : TRUE IN x[3] + SetSum(S \ {x})

\* Number of matched characters M in SequenceMatcher.ratio() = 2.0 * M / T
Matches(a, b) == SetSum(matching_blocks(a, b, 0, Len(a), 0, Len(b)))

\* utils.intr(100 * (2.0 * m / t)): Python's round(), ties to even; t = 0 is
\* SequenceMatcher's ratio 1.0
intr100(m, t) ==
    IF t = 0 THEN 100
    ELSE LET n == 200 * m
             q == n \div t
             r == n % t
         IN  IF 2 * r > t THEN q + 1
             ELSE IF 2 * r < t THEN q
             ELSE IF q % 2 = 0 THEN q ELSE q + 1

\* Mutant of ratio: the check_for_equivalence decorator is missing
ratio_no_equivalence(s1, s2) ==
    IF Len(s1) = 0 \/ Len(s2) = 0 THEN 0
    ELSE intr100(Matches(s1, s2), Len(s1) + Len(s2))

\* fuzz.ratio with its decorators check_for_none, check_for_equivalence,
\* check_empty_string, in that order
ratio(s1, s2) ==
    IF s1 = s2 THEN 100
    ELSE IF Len(s1) = 0 \/ Len(s2) = 0 THEN 0
    ELSE intr100(Matches(s1, s2), Len(s1) + Len(s2))

\* fuzz.partial_ratio: the best ratio of the shorter string against the window
\* of the longer one that each matching block (the sentinel included) lines up
partial_ratio(s1, s2) ==
    IF s1 = s2 THEN 100
    ELSE IF Len(s1) = 0 \/ Len(s2) = 0 THEN 0
    ELSE LET shorter == IF Len(s1) <= Len(s2) THEN s1 ELSE s2
             longer  == IF Len(s1) <= Len(s2) THEN s2 ELSE s1
             blocks  == matching_blocks(shorter, longer, 0, Len(shorter), 0, Len(longer))
                        \cup { <<Len(shorter), Len(longer), 0>> }
             starts  == { IF b[2] - b[1] > 0 THEN b[2] - b[1] ELSE 0 : b \in blocks }
             window(ls) == Slice(longer, ls, Min(ls + Len(shorter), Len(longer)))
             \* <<m, t>> of the ratio 2m/t of each window
             scores  == { <<Matches(shorter, window(ls)), Len(shorter) + Len(window(ls))>> :
                              ls \in starts }
         IN  IF \E r \in scores : 2000 * r[1] > 995 * r[2] THEN 100
             ELSE SetMax({ intr100(r[1], r[2]) : r \in scores })

\* utils.full_process(s, force_ascii=True): \W to a space, lower case, strip
full_process(s) ==
    strip(lower([ i \in 1..Len(s) |-> IF IsWordChar(s[i]) THEN s[i] ELSE " " ]))

\* str.split(): the maximal runs of non-whitespace
RECURSIVE split_ws(_)
split_ws(s) ==
    LET t == lstrip(s)
    IN  IF t = <<>> THEN <<>>
        ELSE LET sp == { i \in 1..Len(t) : isspace(t[i]) }
                 e  == IF sp = {} THEN Len(t) + 1
                       ELSE CHOOSE i \in sp : \A j \in sp : i <= j
             IN  << SubSeq(t, 1, e - 1) >> \o split_ws(SubSeq(t, e, Len(t)))

\* a < b for Python strings: lexicographic by code point
RECURSIVE StrLess(_, _)
StrLess(a, b) ==
    IF b = <<>> THEN FALSE
    ELSE IF a = <<>> THEN TRUE
    ELSE IF a[1] # b[1] THEN OrdOf[a[1]] < OrdOf[b[1]]
    ELSE StrLess(Tail(a), Tail(b))

\* sorted(tokens)
RECURSIVE sorted(_)
sorted(ts) ==
    IF ts = <<>> THEN <<>>
    ELSE LET least == CHOOSE i \in 1..Len(ts) :
                          \A j \in 1..Len(ts) : ~StrLess(ts[j], ts[i])
         IN  << ts[least] >>
             \o sorted(SubSeq(ts, 1, least - 1) \o SubSeq(ts, least + 1, Len(ts)))

\* " ".join(tokens)
RECURSIVE join_space(_)
join_space(ts) ==
    IF ts = <<>> THEN <<>>
    ELSE IF Len(ts) = 1 THEN ts[1]
    ELSE ts[1] \o << " " >> \o join_space(Tail(ts))

\* fuzz._process_and_sort
process_and_sort(s) == strip(join_space(sorted(split_ws(full_process(s)))))

\* fuzz.token_sort_ratio
token_sort_ratio(s1, s2) == ratio(process_and_sort(s1), process_and_sort(s2))

(***************************************************************************)
(* The scorer.  A score is kept in tenths of a point, so that the weights  *)
(* 0.4, 0.3, 0.3 are the integers 4, 3, 3 and 86.0 is 860.  The three      *)
(* measures are integers, so the weighted sum has one decimal and          *)
(* round(.., 2) of batch_process.py:109 does not change it.                *)
(***************************************************************************)
weighted_sum(r, p, t) == r * 4 + p * 3 + t * 3

\* batch_process.calculate_similarity and app.calculate_string_distance, on
\* optional strings (match.get('name') may be None)
calculate_similarity(str1, str2) ==
    IF Falsy(str1) \/ Falsy(str2) THEN 0
    ELSE LET s1 == strip(lower(str1[1]))
             s2 == strip(lower(str2[1]))
         IN  weighted_sum(ratio(s1, s2), partial_ratio(s1, s2), token_sort_ratio(s1, s2))

\* app.calculate_string_distance: the same computation, unrounded
calculate_string_distance(str1, str2) ==
    IF Falsy(str1) \/ Falsy(str2) THEN 0
    ELSE LET s1 == strip(lower(str1[1]))
             s2 == strip(lower(str2[1]))
         IN  weighted_sum(ratio(s1, s2), partial_ratio(s1, s2), token_sort_ratio(s1, s2))

(***************************************************************************)
(* The batch: batch_process.process_names and app.match_names.             *)
(***************************************************************************)
VARIABLES
    impl,            \* which entry point runs: "process_names" or "match_names"
    api,             \* its api / api_choice argument
    min_similarity,  \* its min_similarity argument, in points
    df,              \* the input table: a sequence of rows [name, page]
    unique_names,    \* df['name'].str.lower().unique()
    idx,             \* number of keys whose loop iteration has finished
    pc,              \* "start", "search", "expand", "sleep", "done", "raised"
    matches,         \* what the search of the current key returned
    results,         \* the result rows appended so far
    progress,        \* the reports made so far, as [processed, total]
    lookups,         \* history: the keys handed to a registry collaborator
    events,          \* history: the lookups, expansions and delays, in order
    outcome          \* history: per iteration, [name, matches, raised]

batchVars == << impl, api, min_similarity, df, unique_names, idx, pc, matches,
                results, progress, lookups, events, outcome >>

\* Bounds of the batch model
MaxRows == 3

\* Names of the table: two spellings of one key and another key
TableNames == { <<"A", "b">>, <<"a", "b">>, <<"c", "d">> }

\* Names a registry record may carry; None is a record without a name
\* (match.get('name') is None for a missing key and for a null value alike)
RegistryNames == { None, Some(<<"a", "b">>), Some(<<"a", "b", "c">>), Some(<<"z">>) }

OPENCORPORATES == "opencorporates"

UNSUPPORTED == "other"

UI_OPENCORPORATES == "OpenCorporates (Free)"

UI_REFINITIV == "Refinitiv (Requires Key)"

UI_MOCK == "Mock Data (Testing)"

\* process_names takes any api string (main's parser offers only
\* 'opencorporates'); match_names takes the sidebar's three choices
ApiChoices(f) ==
    IF f = "process_names" THEN { OPENCORPORATES, UNSUPPORTED }
    ELSE { UI_OPENCORPORATES, UI_REFINITIV, UI_MOCK }

\* --min-score is any int (argparse type=int, batch_process.py:204); the
\* sidebar slider of app.py:39 gives 0..100
MinSimilarities(f) ==
    IF f = "process_names" THEN { -1, 0, 80, 101 } ELSE { 0, 80, 100 }

\* Tables of 1..MaxRows rows; page numbers the row, so that every occurrence
\* is told apart.  (A frame built from no names has no 'name' column, and
\* df['name'] raises before the batch starts.)
Tables ==
    UNION { { [ i \in 1..n |-> [name |-> f[i], page |-> i] ] : f \in [1..n -> TableNames] } :
            n \in 1..MaxRows }

\* What the HTTP exchange of one search may come to
Responses ==
    { [kind |-> k, name |-> None] : k \in { "raise", "http_error", "empty" } }
    \cup { [kind |-> "company", name |-> n] : n \in RegistryNames }

CompanyNumber == Some(<<"7">>)

Source == Some(<<"O", "C">>)

\* How a call ends: it returns a value, or an exception leaves it
Returned(v) == [ raised |-> FALSE, value |-> v ]

Raise == [ raised |-> TRUE, value |-> None ]

\* Mutant of unique: no de-duplication, every row is its own key
unique_keeps_duplicates(s) == s

\* pandas Series.unique(): the distinct values in first-seen order
RECURSIVE unique(_)
unique(s) ==
    IF s = <<>> THEN <<>>
    ELSE LET rest == unique(SubSeq(s, 1, Len(s) - 1))
             last == s[Len(s)]
         IN  IF last \in Range(rest) THEN rest ELSE Append(rest, last)

\* df['name'].str.lower()
lower_names(d) == [ i \in 1..Len(d) |-> lower(d[i].name) ]

\* df[df['name'].str.lower() == name]: the rows of the key, in table order
RECURSIVE original_rows(_, _)
original_rows(d, name) ==
    IF d = <<>> THEN <<>>
    ELSE LET rest == original_rows(SubSeq(d, 1, Len(d) - 1), name)
             last == d[Len(d)]
         IN  IF lower(last.name) = name THEN Append(rest, last) ELSE rest

\* Mutant of search_opencorporates: no try/except around the request
search_opencorporates_no_try(resp) ==
    CASE resp.kind = "raise"      -> Raise
      [] resp.kind = "http_error" -> Returned(None)
      [] resp.kind = "empty"      -> Returned(None)
      [] OTHER -> Returned(Some([name |-> resp.name, company_number |-> CompanyNumber,
                                 source |-> None]))

\* batch_process.search_opencorporates: the company record of the first
\* result, None on a non-200 status, and None on any exception (the try
\* of lines 37-55); an empty result list is falsy like None
search_opencorporates(resp) ==
    CASE resp.kind = "raise"      -> Returned(None)
      [] resp.kind = "http_error" -> Returned(None)
      [] resp.kind = "empty"      -> Returned(None)
      [] OTHER -> Returned(Some([name |-> resp.name, company_number |-> CompanyNumber,
                                 source |-> None]))

\* app.search_opencorporates: the same exchange, the record re-keyed
app_search_opencorporates(resp) ==
    CASE resp.kind = "raise"      -> Returned(None)
      [] resp.kind = "http_error" -> Returned(None)
      [] resp.kind = "empty"      -> Returned(None)
      [] OTHER -> Returned(Some([name |-> resp.name, company_number |-> CompanyNumber,
                                 source |-> Source]))

\* app.search_refinitiv: a placeholder, None with or without a key
search_refinitiv(company_name) == Returned(None)

\* app.generate_mock_data: f"{company_name} Limited"
generate_mock_data(company_name) ==
    Returned(Some([name |-> Some(company_name \o <<" ", "L", "i", "m", "i", "t", "e", "d">>),
                   company_number |-> Some(<<"M", "O", "C", "K">>),
                   source |-> Some(<<"M", "o", "c", "k">>)]))

\* Whether the iteration hands the key to a registry collaborator at all
\* (batch_process.py:125-129: an unsupported api only prints an error)
CallsRegistry == ~(impl = "process_names" /\ api # OPENCORPORATES)

\* The search step of one iteration: how the call of the chosen collaborator ends
search(name, resp) ==
    IF impl = "process_names"
    THEN IF api = OPENCORPORATES THEN search_opencorporates(resp) ELSE Returned(None)
    ELSE IF api = UI_OPENCORPORATES THEN app_search_opencorporates(resp)
    ELSE IF api = UI_REFINITIV THEN search_refinitiv(name)
    ELSE generate_mock_data(name)

\* similarity >= min_similarity, the score in tenths
MeetsThreshold(similarity, minsim) == similarity >= 10 * minsim

ResultRow(row, matched_name, score, number, source) ==
    [ original_name |-> row.name, page |-> row.page, matched_name |-> matched_name,
      similarity_score |-> score, company_number |-> number, source |-> source ]

NoMatchRow(row) == ResultRow(row, None, None, None, None)

\* batch_process.py:131-186: the rows one key adds to results
process_names_rows(d, name, m, minsim) ==
    LET rows == original_rows(d, name)
    IN  IF m # None
        THEN LET match == m[1]
                 similarity == calculate_similarity(Some(name), match.name)
             IN  IF MeetsThreshold(similarity, minsim)
                 THEN [ i \in 1..Len(rows) |->
                          ResultRow(rows[i], match.name, Some(similarity),
                                    match.company_number, None) ]
                 ELSE [ i \in 1..Len(rows) |->
                          ResultRow(rows[i], match.name, Some(similarity), None, None) ]
        ELSE [ i \in 1..Len(rows) |-> NoMatchRow(rows[i]) ]

\* app.py:304-343: the rows one key adds to results
match_names_rows(d, name, m, minsim) ==
    LET rows == original_rows(d, name)
    IN  IF m # None
        THEN LET match == m[1]
                 similarity == calculate_string_distance(Some(name), match.name)
             IN  IF MeetsThreshold(similarity, minsim)
                 THEN [ i \in 1..Len(rows) |->
                          ResultRow(rows[i], match.name, Some(similarity),
                                    match.company_number, match.source) ]
                 ELSE <<>>
        ELSE [ i \in 1..Len(rows) |-> NoMatchRow(rows[i]) ]

expand_rows(d, name, m, minsim) ==
    IF impl = "process_names" THEN process_names_rows(d, name, m, minsim)
    ELSE match_names_rows(d, name, m, minsim)

\* Mutant of progress_report: the count of the keys finished is reported
progress_report_zero_based(finished, total) == [ processed |-> finished, total |-> total ]

\* batch_process.py:121-122 (enumerate(unique_names, 1), "[idx/total]"),
\* app.py:292-294 (idx + 1 of total_names): the report at the head of the
\* iteration that follows finished iterations
progress_report(finished, total) == [ processed |-> finished + 1, total |-> total ]

\* One entry of the history of the loop: a lookup issued for a key, the
\* expansion of a key's answer into result rows, or the delay after a key
Event(kind, name) == [ ev |-> kind, name |-> name ]

\* Mutant of rate_limited: the delay of process_names is dropped
rate_limited_in_app_only == impl = "match_names" /\ api = UI_OPENCORPORATES

\* Whether the iteration ends with time.sleep: always in process_names
\* (batch_process.py:189), under the OpenCorporates choice alone in
\* match_names (app.py:346-347)
rate_limited == impl = "process_names" \/ api = UI_OPENCORPORATES

BatchInit ==
    /\ impl \in { "process_names", "match_names" }
    /\ api \in ApiChoices(impl)
    /\ min_similarity \in MinSimilarities(impl)
    /\ df \in Tables
    /\ unique_names = <<>>
    /\ idx = 0
    /\ pc = "start"
    /\ matches = None
    /\ results = <<>>
    /\ progress = <<>>
    /\ events = <<>>
    /\ lookups = <<>>
    /\ outcome = <<>>

\* batch_process.py:113-119, app.py:284-290: no check of min_similarity
Start ==
    /\ pc = "start"
    /\ unique_names' = unique(lower_names(df))
    /\ pc' = "search"
    /\ UNCHANGED << impl, api, min_similarity, df, idx, matches, results, lookups, outcome, progress, events >>

\* batch_process.py:121-129, app.py:292-302: the report and the search of
\* the next key
Search ==
    /\ pc = "search"
    /\ idx < Len(unique_names)
    /\ \E resp \in Responses :
         LET name == unique_names[idx + 1]
             got  == search(name, resp)
         IN  /\ progress' = Append(progress, progress_report(idx, Len(unique_names)))
             /\ lookups' = IF CallsRegistry THEN Append(lookups, name) ELSE lookups
             /\ events' = IF CallsRegistry THEN Append(events, Event("lookup", name)) ELSE events
             /\ IF got.raised
                THEN /\ pc' = "raised"
                     /\ UNCHANGED << matches, outcome >>
                ELSE /\ pc' = "expand"
                     /\ matches' = got.value
                     /\ outcome' = Append(outcome,
                            [ name |-> name, matches |-> got.value,
                              raised |-> CallsRegistry /\ api \in { OPENCORPORATES, UI_OPENCORPORATES }
                                         /\ resp.kind = "raise" ])
    /\ UNCHANGED << impl, api, min_similarity, df, unique_names, idx, results >>

\* batch_process.py:131-186, app.py:304-343: score, threshold, expand
Expand ==
    /\ pc = "expand"
    /\ results' = results \o expand_rows(df, unique_names[idx + 1], matches, min_similarity)
    /\ events' = Append(events, Event("rows", unique_names[idx + 1]))
    /\ pc' = "sleep"
    /\ UNCHANGED << impl, api, min_similarity, df, unique_names, idx, matches, lookups, outcome, progress >>

\* batch_process.py:188-189, app.py:345-347: the rate-limit delay, where it is
\* taken, ends the iteration
Sleep ==
    /\ pc = "sleep"
    /\ events' = IF rate_limited THEN Append(events, Event("sleep", unique_names[idx + 1]))
                 ELSE events
    /\ idx' = idx + 1
    /\ pc' = "search"
    /\ UNCHANGED << impl, api, min_similarity, df, unique_names, matches, results, lookups, outcome, progress >>

\* batch_process.py:191, app.py:349-352: return pd.DataFrame(results)
Return ==
    /\ pc = "search"
    /\ idx = Len(unique_names)
    /\ pc' = "done"
    /\ UNCHANGED << impl, api, min_similarity, df, unique_names, idx, matches, results, lookups, outcome, progress, events >>

BatchNext == Start \/ Search \/ Expand \/ Sleep \/ Return

(***************************************************************************)
(* The scorer on its own: one call of calculate_similarity (batch_process) *)
(* or calculate_string_distance (app) on a pair of optional strings.       *)
(***************************************************************************)
VARIABLES
    str1,        \* first argument
    str2,        \* second argument
    similarity   \* None before the call, then Some(the score in tenths)

scoreVars == << str1, str2, similarity >>

\* Bound of the scorer's inputs: the longest argument
MaxStrLen == 2

\* Letters of both cases, whitespace and punctuation
ScoreAlphabet == { "a", "b", "A", " ", "." }

Strings(alphabet, n) == UNION { [1..k -> alphabet] : k \in 0..n }

ScoreInputs == { None } \cup { Some(s) : s \in Strings(ScoreAlphabet, MaxStrLen) }

ScoreInit ==
    /\ str1 \in ScoreInputs
    /\ str2 \in ScoreInputs
    /\ similarity = None

ScoreIdle ==
    /\ str1 = None
    /\ str2 = None
    /\ similarity = None

\* batch_process.py:93-109
CallCalculateSimilarity ==
    /\ similarity = None
    /\ similarity' = Some(calculate_similarity(str1, str2))
    /\ UNCHANGED << str1, str2 >>

\* app.py:265-280
CallCalculateStringDistance ==
    /\ similarity = None
    /\ similarity' = Some(calculate_string_distance(str1, str2))
    /\ UNCHANGED << str1, str2 >>

ScoreNext == CallCalculateSimilarity \/ CallCalculateStringDistance

(***************************************************************************)
(* Regular expressions as the re module matches them.  A pattern is a      *)
(* sequence of atoms; MatchFrom(pat, text, i) is << e >>, e the end of the  *)
(* match re finds from offset i (each atom tries its alternatives in re's  *)
(* order, greedy first, until the rest of the pattern matches), or <<>>.   *)
(* Offsets are Python's: 0-based, an end is one past the last character.   *)
(***************************************************************************)
\* a literal, compared case-insensitively (re.IGNORECASE); s is lower case
Lit(s) == [ t |-> "lit", s |-> s ]

\* \b
WB == [ t |-> "b" ]

\* \s+
WS == [ t |-> "ws" ]

\* (?:p)?
Opt(p) == [ t |-> "opt", p |-> p ]

\* (?:p1|p2|...)
Alt(ps) == [ t |-> "alt", ps |-> ps ]

\* [A-Za-z\s&]+
QualifierWords == [ t |-> "cls" ]

QualifierClass == UpperSet \cup LowerSet \cup SpaceSet \cup { "&" }

\* [A-Za-z\s]+
QualifierLetters == [ t |-> "letters" ]

\* \s*
WS0 == [ t |-> "ws0" ]

\* [A-Z]{2,} under re.IGNORECASE
Letters2 == [ t |-> "letters2" ]

\* Whether offset i is a word boundary of text
IsWordBoundary(text, i) ==
    LET before == i >= 1 /\ IsWordChar(text[i])
        after  == i < Len(text) /\ IsWordChar(text[i + 1])
    IN  before # after

LitMatches(text, i, s) ==
    /\ i + Len(s) <= Len(text)
    /\ \A k \in 1..Len(s) : lower_char(text[i + k]) = s[k]

\* Length of the run of characters of the set S that starts at offset i
RunOf(text, i, S) ==
    LET stops == { j \in (i + 1)..Len(text) : text[j] \notin S }
    IN  IF stops = {} THEN Len(text) - i
        ELSE (CHOOSE j \in stops : \A k \in stops : j <= k) - 1 - i

RECURSIVE MatchFrom(_, _, _)
\* A greedy run of 1..n characters, then the rest: the longest run after
\* which the rest matches
AfterRun(rest, text, i, n) ==
    LET ok == { k \in 1..n : MatchFrom(rest, text, i + k) # <<>> }
    IN  IF ok = {} THEN <<>> ELSE MatchFrom(rest, text, i + SetMax(ok))

\* A greedy run of lo..n characters, then the rest
AfterRunAtLeast(rest, text, i, lo, n) ==
    LET ok == { k \in lo..n : MatchFrom(rest, text, i + k) # <<>> }
    IN  IF ok = {} THEN <<>> ELSE MatchFrom(rest, text, i + SetMax(ok))

\* The first alternative after which the rest matches
RECURSIVE AfterAlt(_, _, _, _)
AfterAlt(ps, rest, text, i) ==
    IF ps = <<>> THEN <<>>
    ELSE LET m == MatchFrom(Head(ps) \o rest, text, i)
         IN  IF m # <<>> THEN m ELSE AfterAlt(Tail(ps), rest, text, i)

MatchFrom(pat, text, i) ==
    IF pat = <<>> THEN << i >>
    ELSE LET a == Head(pat)
             rest == Tail(pat)
         IN  CASE a.t = "lit" ->
                    IF LitMatches(text, i, a.s) THEN MatchFrom(rest, text, i + Len(a.s))
                    ELSE <<>>
               [] a.t = "b" ->
                    IF IsWordBoundary(text, i) THEN MatchFrom(rest, text, i) ELSE <<>>
               [] a.t = "ws" -> AfterRun(rest, text, i, RunOf(text, i, SpaceSet))
               [] a.t = "cls" -> AfterRun(rest, text, i, RunOf(text, i, QualifierClass))
               [] a.t = "letters" ->
                    AfterRun(rest, text, i, RunOf(text, i, UpperSet \cup LowerSet \cup SpaceSet))
               [] a.t = "ws0" -> AfterRunAtLeast(rest, text, i, 0, RunOf(text, i, SpaceSet))
               [] a.t = "letters2" ->
                    AfterRunAtLeast(rest, text, i, 2, RunOf(text, i, UpperSet \cup LowerSet))
               [] a.t = "opt" ->
                    LET m == MatchFrom(a.p \o rest, text, i)
                    IN  IF m # <<>> THEN m ELSE MatchFrom(rest, text, i)
               [] a.t = "alt" -> AfterAlt(a.ps, rest, text, i)

\* The matches re.finditer yields from offset pos on, as [start, end], given
\* the set of offsets at which the pattern matches: leftmost first, the next
\* search starting where the match ended
RECURSIVE NonOverlapping(_, _, _, _)
NonOverlapping(pat, text, starts, pos) ==
    LET later == { p \in starts : p >= pos }
    IN  IF later = {} THEN <<>>
        ELSE LET p == CHOOSE q \in later : \A r \in later : q <= r
                 e == MatchFrom(pat, text, p)[1]
             IN  << [start |-> p, end |-> e] >>
                 \o NonOverlapping(pat, text, starts, IF e > p THEN e ELSE p + 1)

\* re.finditer(pattern, text)
finditer(pat, text) ==
    NonOverlapping(pat, text, { p \in 0..Len(text) : MatchFrom(pat, text, p) # <<>> }, 0)

(***************************************************************************)
(* advanced_entity_detection.py                                            *)
(***************************************************************************)
\* The literals of the patterns of advanced_entity_detection.py:34-44, in
\* lower case
adv_words == [
    chamber |-> << "c", "h", "a", "m", "b", "e", "r" >>,
    of |-> << "o", "f" >>,
    commerce |-> << "c", "o", "m", "m", "e", "r", "c", "e" >>,
    church |-> << "c", "h", "u", "r", "c", "h" >>,
    christ |-> << "c", "h", "r", "i", "s", "t" >>,
    inaugural |-> << "i", "n", "a", "u", "g", "u", "r", "a", "l" >>,
    committee |-> << "c", "o", "m", "m", "i", "t", "t", "e", "e" >>,
    building |-> << "b", "u", "i", "l", "d", "i", "n", "g" >>,
    congress |-> << "c", "o", "n", "g", "r", "e", "s", "s" >>,
    institute |-> << "i", "n", "s", "t", "i", "t", "u", "t", "e" >>,
    foundation |-> << "f", "o", "u", "n", "d", "a", "t", "i", "o", "n" >>,
    coalition |-> << "c", "o", "a", "l", "i", "t", "i", "o", "n" >>,
    s |-> << "s" >>,
    es |-> << "e", "s" >> ]

\* advanced_entity_detection.py:34-44
adv_org_endings == <<
    << WB, Lit(adv_words.chamber), WS, Lit(adv_words.of), WS, Lit(adv_words.commerce) >>,
    << WB, Lit(adv_words.church), WS, Lit(adv_words.of), WS, Lit(adv_words.christ) >>,
    << WB, Lit(adv_words.inaugural), WS, Lit(adv_words.committee) >>,
    << WB, Lit(adv_words.building), WS, Lit(adv_words.congress) >>,
    << WB, Lit(adv_words.committee) >>,
    << WB, Lit(adv_words.institute), Opt(<< Lit(adv_words.s) >>) >>,
    << WB, Lit(adv_words.foundation), Opt(<< Lit(adv_words.s) >>) >>,
    << WB, Lit(adv_words.coalition), Opt(<< Lit(adv_words.s) >>) >>,
    << WB, Lit(adv_words.congress), Opt(<< Lit(adv_words.es) >>) >> >>

\* The boundary rule of lines 49-55 (app.py:99-109): a match ending at e is
\* a boundary at the end of the text, or when the first character after the
\* whitespace that follows e is upper case
AcceptedEnd(text, e) ==
    IF e < Len(text)
    THEN LET remaining == lstrip(Slice(text, e, Len(text)))
         IN  remaining # <<>> /\ isupper(remaining[1])
    ELSE TRUE

\* The accepted ends of all matches of all patterns, as a set
EntityEnds(endings, text) ==
    { m.end : m \in UNION { Range(finditer(endings[k], text)) : k \in DOMAIN endings } }
    \cap { e \in 0..Len(text) : AcceptedEnd(text, e) }

\* Mutant of SortedSeq: the offsets in descending order
SortedDescending(S) ==
    LET n == Cardinality(S)
    IN  [ k \in 1..n |-> CHOOSE x \in S : Cardinality({ y \in S : y > x }) = k - 1 ]

\* sorted(set(entity_ends))
RECURSIVE SortedSeq(_)
SortedSeq(S) ==
    IF S = {} THEN <<>>
    ELSE LET least == CHOOSE x \in S : \A y \in S : x <= y
         IN  << least >> \o SortedSeq(S \ { least })

\* The loop of lines 62-68: the trimmed slices between consecutive ends that
\* are longer than minlen - 1 characters
RECURSIVE SlicesLongerThan(_, _, _, _)
SlicesLongerThan(text, start, ends, minlen) ==
    IF ends = <<>> THEN <<>>
    ELSE LET entity == strip(Slice(text, start, Head(ends)))
         IN  (IF entity # <<>> /\ Len(entity) >= minlen THEN << entity >> ELSE <<>>)
             \o SlicesLongerThan(text, Head(ends), Tail(ends), minlen)

Last(s) == s[Len(s)]

\* advanced_entity_detection.detect_by_patterns
detect_by_patterns(text) ==
    LET entity_ends == SortedSeq(EntityEnds(adv_org_endings, text))
    IN  IF entity_ends = <<>> THEN << text >>
        ELSE LET head == SlicesLongerThan(text, 0, entity_ends, 4)
                 remaining == strip(Slice(text, Last(entity_ends), Len(text)))
                 entities == head \o (IF remaining # <<>> /\ Len(remaining) > 3
                                      THEN << remaining >> ELSE <<>>)
             IN  IF entities # <<>> THEN entities ELSE << text >>

\* One match of r'([a-z])\s+([A-Z][a-z]*(?:[A-Z][a-z]*)*)' at offset pos:
\* a lower-case letter, whitespace, and the run of letters that an
\* upper-case letter starts; [start of group 2, end], or <<>>
LetterSet == UpperSet \cup LowerSet

CapitalizedAt(text, pos) ==
    IF pos < Len(text) /\ text[pos + 1] \in LowerSet
    THEN LET ws == RunOf(text, pos + 1, SpaceSet)
             g2 == pos + 1 + ws
         IN  IF ws >= 1 /\ g2 < Len(text) /\ isupper(text[g2 + 1])
             THEN << [start |-> g2, end |-> g2 + RunOf(text, g2, LetterSet)] >>
             ELSE <<>>
    ELSE <<>>

\* re.finditer of that expression: leftmost first, the next search starting
\* where the match ended
RECURSIVE CapitalizedFrom(_, _, _)
CapitalizedFrom(text, starts, pos) ==
    LET later == { p \in starts : p >= pos }
    IN  IF later = {} THEN <<>>
        ELSE LET p == CHOOSE q \in later : \A r \in later : q <= r
                 m == CapitalizedAt(text, p)
             IN  m \o CapitalizedFrom(text, starts, m[1].end)

finditer_capitalized(text) ==
    CapitalizedFrom(text, { p \in 0..Len(text) : CapitalizedAt(text, p) # <<>> }, 0)

\* advanced_entity_detection.detect_by_capitalization
detect_by_capitalization(text, min_entity_length) ==
    LET found == finditer_capitalized(text)
        split_points == SelectSeq([ k \in 1..Len(found) |-> found[k] ],
                                  LAMBDA m : m.end - m.start >= 3)
        points == [ k \in 1..Len(split_points) |-> split_points[k].start ]
    IN  IF points = <<>> THEN << text >>
        ELSE LET head == SlicesLongerThan(text, 0, points, min_entity_length)
                 remaining == strip(Slice(text, Last(points), Len(text)))
                 entities == head \o (IF remaining # <<>> /\ Len(remaining) >= min_entity_length
                                      THEN << remaining >> ELSE <<>>)
             IN  IF entities # <<>> THEN entities ELSE << text >>

\* text.split(','): the pieces between the commas, empty ones included
RECURSIVE split_comma(_)
split_comma(text) ==
    LET commas == { i \in 1..Len(text) : text[i] = "," }
    IN  IF commas = {} THEN << text >>
        ELSE LET c == CHOOSE i \in commas : \A j \in commas : i <= j
             IN  << SubSeq(text, 1, c - 1) >> \o split_comma(SubSeq(text, c + 1, Len(text)))

\* [s.strip() for s in text.split(',') if s.strip()]
comma_segments(text) ==
    LET pieces == split_comma(text)
        trimmed == [ k \in 1..Len(pieces) |-> strip(pieces[k]) ]
    IN  SelectSeq(trimmed, LAMBDA x : x # <<>>)

RECURSIVE Flatten(_)
Flatten(ss) == IF ss = <<>> THEN <<>> ELSE Head(ss) \o Flatten(Tail(ss))

\* Mutant of split_on_commas_and_patterns: the text is not cut at the commas
split_without_commas(text) == detect_by_patterns(strip(text))

\* advanced_entity_detection.split_on_commas_and_patterns
split_on_commas_and_patterns(text) ==
    LET segs == comma_segments(text)
    IN  Flatten([ k \in 1..Len(segs) |-> detect_by_patterns(segs[k]) ])

\* advanced_entity_detection.smart_split
smart_split(text, aggressive) ==
    LET entities == split_on_commas_and_patterns(text)
    IN  IF aggressive
        THEN Flatten([ k \in 1..Len(entities) |-> detect_by_capitalization(entities[k], 8) ])
        ELSE entities

(***************************************************************************)
(* app.py: detect_entity_boundaries                                        *)
(***************************************************************************)
\* The literals of the patterns of app.py:59-90, in lower case (s_a is
\* S\.A\., n_v is N\.V\., dot is \.)
app_words == [
    institute |-> << "i", "n", "s", "t", "i", "t", "u", "t", "e" >>,
    foundation |-> << "f", "o", "u", "n", "d", "a", "t", "i", "o", "n" >>,
    coalition |-> << "c", "o", "a", "l", "i", "t", "i", "o", "n" >>,
    alliance |-> << "a", "l", "l", "i", "a", "n", "c", "e" >>,
    association |-> << "a", "s", "s", "o", "c", "i", "a", "t", "i", "o", "n" >>,
    council |-> << "c", "o", "u", "n", "c", "i", "l" >>,
    centre |-> << "c", "e", "n", "t", "r", "e" >>,
    network |-> << "n", "e", "t", "w", "o", "r", "k" >>,
    group |-> << "g", "r", "o", "u", "p" >>,
    societ |-> << "s", "o", "c", "i", "e", "t" >>,
    y |-> << "y" >>,
    ies |-> << "i", "e", "s" >>,
    trust |-> << "t", "r", "u", "s", "t" >>,
    fund |-> << "f", "u", "n", "d" >>,
    organization |-> << "o", "r", "g", "a", "n", "i", "z", "a", "t", "i", "o", "n" >>,
    organisation |-> << "o", "r", "g", "a", "n", "i", "s", "a", "t", "i", "o", "n" >>,
    initiative |-> << "i", "n", "i", "t", "i", "a", "t", "i", "v", "e" >>,
    project |-> << "p", "r", "o", "j", "e", "c", "t" >>,
    program |-> << "p", "r", "o", "g", "r", "a", "m" >>,
    programme |-> << "p", "r", "o", "g", "r", "a", "m", "m", "e" >>,
    relations |-> << "r", "e", "l", "a", "t", "i", "o", "n", "s" >>,
    corporation |-> << "c", "o", "r", "p", "o", "r", "a", "t", "i", "o", "n" >>,
    inc |-> << "i", "n", "c" >>,
    llc |-> << "l", "l", "c" >>,
    ltd |-> << "l", "t", "d" >>,
    plc |-> << "p", "l", "c" >>,
    ag |-> << "a", "g" >>,
    gmbh |-> << "g", "m", "b", "h" >>,
    s_a |-> << "s", ".", "a", "." >>,
    n_v |-> << "n", ".", "v", "." >>,
    s |-> << "s" >>,
    dot |-> << "." >>,
    for |-> << "f", "o", "r" >>,
    of |-> << "o", "f" >>,
    on |-> << "o", "n" >> ]

\* (?:\s+(?:for|of|on)\s+[A-Za-z\s&]+)?, words the alternatives of its group
Qualifier(words) == Opt(<< WS, Alt(words), WS, QualifierWords >>)

\* (?:for|of|on)
ForOfOn == << << Lit(app_words.for) >>, << Lit(app_words.of) >>, << Lit(app_words.on) >> >>

\* \bWords?(?:\s+(?:for|of|on)\s+[A-Za-z\s&]+)?
Keyword(w) == << WB, Lit(w), Opt(<< Lit(app_words.s) >>), Qualifier(ForOfOn) >>

\* app.py:59-90
app_org_endings == <<
    << WB, Lit(app_words.institute), Qualifier(ForOfOn) >>,
    Keyword(app_words.foundation),
    Keyword(app_words.coalition),
    Keyword(app_words.alliance),
    Keyword(app_words.association),
    << WB, Lit(app_words.council), Opt(<< Lit(app_words.s) >>), Qualifier(<< << Lit(app_words.on) >> >>) >>,
    Keyword(app_words.centre),
    Keyword(app_words.network),
    Keyword(app_words.group),
    << WB, Lit(app_words.societ), Alt(<< << Lit(app_words.y) >>, << Lit(app_words.ies) >> >>), Qualifier(ForOfOn) >>,
    Keyword(app_words.trust),
    Keyword(app_words.fund),
    Keyword(app_words.organization),
    Keyword(app_words.organisation),
    Keyword(app_words.initiative),
    Keyword(app_words.project),
    Keyword(app_words.program),
    Keyword(app_words.programme),
    << WB, Lit(app_words.relations) >>,
    << WB, Lit(app_words.corporation), Opt(<< Lit(app_words.s) >>) >>,
    << WB, Lit(app_words.inc), Opt(<< Lit(app_words.dot) >>) >>,
    << WB, Lit(app_words.llc) >>,
    << WB, Lit(app_words.ltd), Opt(<< Lit(app_words.dot) >>) >>,
    << WB, Lit(app_words.plc) >>,
    << WB, Lit(app_words.ag) >>,
    << WB, Lit(app_words.gmbh) >>,
    << WB, Lit(app_words.s_a) >>,
    << WB, Lit(app_words.n_v) >> >>

\* Mutant of detect_entity_boundaries: the list is returned as filtered, with
\* no fallback to the text
detect_entity_boundaries_no_fallback(text) ==
    LET entity_ends == SortedSeq(EntityEnds(app_org_endings, text))
        head == SlicesLongerThan(text, 0, entity_ends, 1)
        remaining == IF entity_ends = <<>> THEN <<>>
                     ELSE strip(Slice(text, Last(entity_ends), Len(text)))
        found == head \o (IF remaining # <<>>
                             /\ \E k \in DOMAIN remaining : isupper(remaining[k])
                          THEN << remaining >> ELSE <<>>)
    IN  SelectSeq(found, LAMBDA e : Len(e) > 3)

\* app.detect_entity_boundaries.  entity_ends holds (end, matched text)
\* pairs; two pairs with one end make the second slice empty, which the
\* loop drops, so the ends are kept as a set of offsets.
detect_entity_boundaries(text) ==
    LET entity_ends == SortedSeq(EntityEnds(app_org_endings, text))
    IN  IF entity_ends = <<>> THEN << text >>
        ELSE LET head == SlicesLongerThan(text, 0, entity_ends, 1)
                 remaining == strip(Slice(text, Last(entity_ends), Len(text)))
                 found == head \o (IF remaining # <<>>
                                      /\ \E k \in DOMAIN remaining : isupper(remaining[k])
                                   THEN << remaining >> ELSE <<>>)
                 entities == SelectSeq(found, LAMBDA e : Len(e) > 3)
             IN  IF entities # <<>> THEN entities ELSE << text >>

(***************************************************************************)
(* test_entity_detection.py: its copy of detect_entity_boundaries          *)
(***************************************************************************)
\* (?:\s+(?:for|of|on)\s+[A-Za-z\s]+)?, words the alternatives of its group
TestQualifier(words) == Opt(<< WS, Alt(words), WS, QualifierLetters >>)

\* \bWord(?:\s+(?:for|of|on)\s+[A-Za-z\s]+)?
TestKeyword(w) == << WB, Lit(w), TestQualifier(ForOfOn) >>

\* test_entity_detection.py:22-50
test_org_endings == <<
    TestKeyword(app_words.institute),
    TestKeyword(app_words.foundation),
    TestKeyword(app_words.coalition),
    TestKeyword(app_words.alliance),
    TestKeyword(app_words.association),
    << WB, Lit(app_words.council), TestQualifier(<< << Lit(app_words.on) >> >>) >>,
    << WB, Lit(<< "c", "e", "n", "t", "r" >>), Opt(<< Lit(<< "e" >>) >>),
       TestQualifier(ForOfOn) >>,
    TestKeyword(app_words.network),
    TestKeyword(app_words.group),
    TestKeyword(app_words.societ \o app_words.y),
    TestKeyword(app_words.trust),
    TestKeyword(app_words.fund),
    << WB, Lit(app_words.organization), Opt(<< Lit(app_words.s) >>), TestQualifier(ForOfOn) >>,
    TestKeyword(app_words.initiative),
    TestKeyword(app_words.project),
    << WB, Lit(app_words.program), Opt(<< Lit(app_words.s) >>), TestQualifier(ForOfOn) >>,
    << WB, Lit(app_words.corporation) >>,
    << WB, Lit(app_words.inc), Opt(<< Lit(app_words.dot) >>) >>,
    << WB, Lit(app_words.llc) >>,
    << WB, Lit(app_words.ltd), Opt(<< Lit(app_words.dot) >>) >>,
    << WB, Lit(app_words.plc) >>,
    << WB, Lit(app_words.ag) >>,
    << WB, Lit(app_words.gmbh) >>,
    << WB, Lit(app_words.s_a) >>,
    << WB, Lit(app_words.n_v) >> >>

\* The ends of all matches of all patterns, as a set
MatchEnds(endings, text) ==
    { m.end : m \in UNION { Range(finditer(endings[k], text)) : k \in DOMAIN endings } }

\* test_entity_detection.detect_entity_boundaries: every match end is a
\* boundary, and the remaining text is kept whatever its case
test_detect_entity_boundaries(text) ==
    LET entity_ends == SortedSeq(MatchEnds(test_org_endings, text))
    IN  IF entity_ends = <<>> THEN << text >>
        ELSE LET head == SlicesLongerThan(text, 0, entity_ends, 1)
                 remaining == strip(Slice(text, Last(entity_ends), Len(text)))
                 found == head \o (IF remaining # <<>> THEN << remaining >> ELSE <<>>)
                 entities == SelectSeq(found, LAMBDA e : Len(e) > 3)
             IN  IF entities # <<>> THEN entities ELSE << text >>

(***************************************************************************)
(* name_cleaner.py: NameCleaner                                            *)
(***************************************************************************)
\* name_cleaner.py:14-46
LEGAL_SUFFIXES == <<
    \* \bLimited\b
    << WB, Lit(<< "l", "i", "m", "i", "t", "e", "d" >>), WB >>,
    \* \bLtd\.?\b
    << WB, Lit(<< "l", "t", "d" >>), Opt(<< Lit(<< "." >>) >>), WB >>,
    \* \bLLC\b
    << WB, Lit(<< "l", "l", "c" >>), WB >>,
    \* \bL\.L\.C\.?\b
    << WB, Lit(<< "l", ".", "l", ".", "c" >>), Opt(<< Lit(<< "." >>) >>), WB >>,
    \* \bInc\.?\b
    << WB, Lit(<< "i", "n", "c" >>), Opt(<< Lit(<< "." >>) >>), WB >>,
    \* \bIncorporated\b
    << WB, Lit(<< "i", "n", "c", "o", "r", "p", "o", "r", "a", "t", "e", "d" >>), WB >>,
    \* \bCorp\.?\b
    << WB, Lit(<< "c", "o", "r", "p" >>), Opt(<< Lit(<< "." >>) >>), WB >>,
    \* \bCorporation\b
    << WB, Lit(<< "c", "o", "r", "p", "o", "r", "a", "t", "i", "o", "n" >>), WB >>,
    \* \bCo\.?\b
    << WB, Lit(<< "c", "o" >>), Opt(<< Lit(<< "." >>) >>), WB >>,
    \* \bCompany\b
    << WB, Lit(<< "c", "o", "m", "p", "a", "n", "y" >>), WB >>,
    \* \bPLC\b
    << WB, Lit(<< "p", "l", "c" >>), WB >>,
    \* \bP\.L\.C\.?\b
    << WB, Lit(<< "p", ".", "l", ".", "c" >>), Opt(<< Lit(<< "." >>) >>), WB >>,
    \* \bGmbH\b
    << WB, Lit(<< "g", "m", "b", "h" >>), WB >>,
    \* \bAG\b
    << WB, Lit(<< "a", "g" >>), WB >>,
    \* \bKG\b
    << WB, Lit(<< "k", "g" >>), WB >>,
    \* \bmbH\b
    << WB, Lit(<< "m", "b", "h" >>), WB >>,
    \* \be\.V\.?\b
    << WB, Lit(<< "e", ".", "v" >>), Opt(<< Lit(<< "." >>) >>), WB >>,
    \* \bS\.A\.?\b
    << WB, Lit(<< "s", ".", "a" >>), Opt(<< Lit(<< "." >>) >>), WB >>,
    \* \bSA\b
    << WB, Lit(<< "s", "a" >>), WB >>,
    \* \bS\.A\.R\.L\.?\b
    << WB, Lit(<< "s", ".", "a", ".", "r", ".", "l" >>), Opt(<< Lit(<< "." >>) >>), WB >>,
    \* \bSARL\b
    << WB, Lit(<< "s", "a", "r", "l" >>), WB >>,
    \* \bSociété Anonyme\b
    << WB, Lit(<< "s", "o", "c", "i", "é", "t", "é", " ", "a", "n", "o", "n", "y", "m", "e" >>), WB >>,
    \* \bS\.A\.S\.?\b
    << WB, Lit(<< "s", ".", "a", ".", "s" >>), Opt(<< Lit(<< "." >>) >>), WB >>,
    \* \bS\.p\.A\.?\b
    << WB, Lit(<< "s", ".", "p", ".", "a" >>), Opt(<< Lit(<< "." >>) >>), WB >>,
    \* \bSpA\b
    << WB, Lit(<< "s", "p", "a" >>), WB >>,
    \* \bS\.r\.l\.?\b
    << WB, Lit(<< "s", ".", "r", ".", "l" >>), Opt(<< Lit(<< "." >>) >>), WB >>,
    \* \bSrl\b
    << WB, Lit(<< "s", "r", "l" >>), WB >>,
    \* \bN\.V\.?\b
    << WB, Lit(<< "n", ".", "v" >>), Opt(<< Lit(<< "." >>) >>), WB >>,
    \* \bNV\b
    << WB, Lit(<< "n", "v" >>), WB >>,
    \* \bB\.V\.?\b
    << WB, Lit(<< "b", ".", "v" >>), Opt(<< Lit(<< "." >>) >>), WB >>,
    \* \bBV\b
    << WB, Lit(<< "b", "v" >>), WB >>,
    \* \bAB\b
    << WB, Lit(<< "a", "b" >>), WB >>,
    \* \bA/S\b
    << WB, Lit(<< "a", "/", "s" >>), WB >>,
    \* \bA\.S\.?\b
    << WB, Lit(<< "a", ".", "s" >>), Opt(<< Lit(<< "." >>) >>), WB >>,
    \* \bOyj\b
    << WB, Lit(<< "o", "y", "j" >>), WB >>,
    \* \bAS\b
    << WB, Lit(<< "a", "s" >>), WB >>,
    \* \bPte\.?\b
    << WB, Lit(<< "p", "t", "e" >>), Opt(<< Lit(<< "." >>) >>), WB >>,
    \* \bLtd\.?\b
    << WB, Lit(<< "l", "t", "d" >>), Opt(<< Lit(<< "." >>) >>), WB >>,
    \* \bCo\.,\s*Ltd\.?\b
    << WB, Lit(<< "c", "o", ".", "," >>), WS0, Lit(<< "l", "t", "d" >>), Opt(<< Lit(<< "." >>) >>), WB >>,
    \* \bSdn\.?\s+Bhd\.?\b
    << WB, Lit(<< "s", "d", "n" >>), Opt(<< Lit(<< "." >>) >>), WS, Lit(<< "b", "h", "d" >>), Opt(<< Lit(<< "." >>) >>), WB >>,
    \* \bK\.K\.?\b
    << WB, Lit(<< "k", ".", "k" >>), Opt(<< Lit(<< "." >>) >>), WB >>,
    \* \bCo\., Ltd\.?\b
    << WB, Lit(<< "c", "o", ".", ",", " ", "l", "t", "d" >>), Opt(<< Lit(<< "." >>) >>), WB >>,
    \* \bPty\.?\b
    << WB, Lit(<< "p", "t", "y" >>), Opt(<< Lit(<< "." >>) >>), WB >>,
    \* \bS\.C\.?\b
    << WB, Lit(<< "s", ".", "c" >>), Opt(<< Lit(<< "." >>) >>), WB >>,
    \* \bLtda\.?\b
    << WB, Lit(<< "l", "t", "d", "a" >>), Opt(<< Lit(<< "." >>) >>), WB >>,
    \* \([A-Z]{2,}\)
    << Lit(<< "(" >>), Letters2, Lit(<< ")" >>) >>,
    \* \(Deutschland\)
    << Lit(<< "(", "d", "e", "u", "t", "s", "c", "h", "l", "a", "n", "d", ")" >>) >>,
    \* \(UK\)
    << Lit(<< "(", "u", "k", ")" >>) >>,
    \* \(US\)
    << Lit(<< "(", "u", "s", ")" >>) >>,
    \* \(Europe\)
    << Lit(<< "(", "e", "u", "r", "o", "p", "e", ")" >>) >>,
    \* \(Asia\)
    << Lit(<< "(", "a", "s", "i", "a", ")" >>) >>,
    \* \(International\)
    << Lit(<< "(", "i", "n", "t", "e", "r", "n", "a", "t", "i", "o", "n", "a", "l", ")" >>) >> >>

\* name_cleaner.py:49-52
NOISE_WORDS == <<
    \* \bThe\b
    << WB, Lit(<< "t", "h", "e" >>), WB >>,
    \* \bGroup\b
    << WB, Lit(<< "g", "r", "o", "u", "p" >>), WB >>,
    \* \bHoldings?\b
    << WB, Lit(<< "h", "o", "l", "d", "i", "n", "g" >>), Opt(<< Lit(<< "s" >>) >>), WB >>,
    \* \bInternational\b
    << WB, Lit(<< "i", "n", "t", "e", "r", "n", "a", "t", "i", "o", "n", "a", "l" >>), WB >>,
    \* \bGlobal\b
    << WB, Lit(<< "g", "l", "o", "b", "a", "l" >>), WB >>,
    \* \bWorldwide\b
    << WB, Lit(<< "w", "o", "r", "l", "d", "w", "i", "d", "e" >>), WB >>,
    \* \b&\s*Co\.?\b
    << WB, Lit(<< "&" >>), WS0, Lit(<< "c", "o" >>), Opt(<< Lit(<< "." >>) >>), WB >> >>

\* The text between the matches ms (in order) from offset pos on, each match
\* replaced by repl
RECURSIVE Replaced(_, _, _, _)
Replaced(text, ms, pos, repl) ==
    IF ms = <<>> THEN Slice(text, pos, Len(text))
    ELSE Slice(text, pos, Head(ms).start) \o repl \o Replaced(text, Tail(ms), Head(ms).end, repl)

\* re.sub(pattern, repl, text, flags=re.IGNORECASE)
re_sub(pat, repl, text) == Replaced(text, finditer(pat, text), 0, repl)

\* re.sub(r'[^\w\s&-]', ' ', s)
punctuation_to_space(s) ==
    [ k \in 1..Len(s) |->
        IF IsWordChar(s[k]) \/ isspace(s[k]) \/ s[k] \in { "&", "-" } THEN s[k] ELSE " " ]

\* NameCleaner.normalize_name
normalize_name(name) ==
    IF name = <<>> THEN <<>>
    ELSE LET lowered == lower(name)
             collapsed == strip(re_sub(<< WS >>, << " " >>, lowered))
             cleared == punctuation_to_space(collapsed)
             standardized == re_sub(<< WS, Lit(<< "&" >>), WS >>,
                                    << " ", "a", "n", "d", " " >>, cleared)
         IN  strip(standardized)

\* The loops of lines 79-80 and 89-90: the patterns lo..hi of a table removed
\* one after the other, each from what the one before left (the range is
\* halved to keep the evaluation shallow; nothing is left to remove from the
\* empty string)
RECURSIVE remove_range(_, _, _, _)
remove_range(table, lo, hi, cleaned) ==
    IF lo > hi THEN cleaned
    ELSE IF lo = hi THEN re_sub(table[lo], <<>>, cleaned)
    ELSE LET mid == (lo + hi) \div 2
             half == remove_range(table, lo, mid, cleaned)
         IN  IF half = <<>> THEN <<>> ELSE remove_range(table, mid + 1, hi, half)

remove_each(table, cleaned) == remove_range(table, 1, Len(table), cleaned)

\* NameCleaner.remove_legal_suffixes
remove_legal_suffixes(name) == strip(remove_each(LEGAL_SUFFIXES, name))

\* NameCleaner.remove_noise_words
remove_noise_words(name) == strip(remove_each(NOISE_WORDS, name))

\* NameCleaner.extract_core_name
extract_core_name(name) ==
    LET core == remove_noise_words(remove_legal_suffixes(normalize_name(name)))
    IN  strip(re_sub(<< WS >>, << " " >>, core))

(***************************************************************************)
(* app.py: extract_names_from_pdf                                          *)
(***************************************************************************)
\* app.py:43-50
COMMON_SUFFIXES == <<
    << "L", "i", "m", "i", "t", "e", "d" >>,
    << "L", "t", "d" >>,
    << "L", "t", "d", "." >>,
    << "L", "L", "C" >>,
    << "L", ".", "L", ".", "C", "." >>,
    << "I", "n", "c" >>,
    << "I", "n", "c", "." >>,
    << "I", "n", "c", "o", "r", "p", "o", "r", "a", "t", "e", "d" >>,
    << "C", "o", "r", "p" >>,
    << "C", "o", "r", "p", "." >>,
    << "C", "o", "r", "p", "o", "r", "a", "t", "i", "o", "n" >>,
    << "C", "o", "." >>,
    << "C", "o" >>,
    << "C", "o", "m", "p", "a", "n", "y" >>,
    << "G", "m", "b", "H" >>,
    << "A", "G" >>,
    << "S", ".", "A", "." >>,
    << "S", ".", "A" >>,
    << "S", "A" >>,
    << "S", ".", "p", ".", "A", "." >>,
    << "S", "p", "A" >>,
    << "N", ".", "V", "." >>,
    << "N", "V" >>,
    << "B", ".", "V", "." >>,
    << "B", "V" >>,
    << "P", "t", "y" >>,
    << "P", "t", "y", "." >>,
    << "P", "L", "C" >>,
    << "P", ".", "L", ".", "C", "." >>,
    << "(", "D", "e", "u", "t", "s", "c", "h", "l", "a", "n", "d", ")" >>,
    << "(", "U", "K", ")" >>,
    << "(", "U", "S", ")" >>,
    << "C", "o", ".", ",", "L", "t", "d", "." >>,
    << "C", "o", ".", ",", " ", "L", "t", "d", "." >>,
    << "P", "t", "e" >>,
    << "P", "t", "e", "." >>,
    << "S", "d", "n", " ", "B", "h", "d" >>,
    << "S", "d", "n", ".", " ", "B", "h", "d", "." >>,
    << "A", ".", "S", "." >>,
    << "A", "S" >>,
    << "A", "B" >>,
    << "O", "y", "j" >>,
    << "S", ".", "r", ".", "l", "." >>,
    << "S", "r", "l" >>,
    << "K", "G" >>,
    << "m", "b", "H" >> >>

\* str.startswith
startswith(s, prefix) ==
    Len(prefix) <= Len(s) /\ SubSeq(s, 1, Len(prefix)) = prefix

\* any(next_line.startswith(suffix) for suffix in COMMON_SUFFIXES)
starts_with_suffix(next_line) ==
    \E k \in DOMAIN COMMON_SUFFIXES : startswith(next_line, COMMON_SUFFIXES[k])

\* text.split('\n'): the pieces between the newlines, empty ones included
RECURSIVE split_newline(_)
split_newline(text) ==
    LET breaks == { k \in 1..Len(text) : text[k] = "\n" }
    IN  IF breaks = {} THEN << text >>
        ELSE LET c == CHOOSE k \in breaks : \A j \in breaks : k <= j
             IN  << SubSeq(text, 1, c - 1) >> \o split_newline(SubSeq(text, c + 1, Len(text)))

\* Mutant of logical_line: the successor is joined but not skipped
logical_line_keeps_successor(lines, i) ==
    LET current_line == strip(lines[i + 1])
    IN  IF current_line # <<>> /\ i + 1 < Len(lines) /\ starts_with_suffix(strip(lines[i + 2]))
        THEN [ text |-> current_line \o << " " >> \o strip(lines[i + 2]), merged |-> FALSE ]
        ELSE [ text |-> current_line, merged |-> FALSE ]

\* Lines 153-165 of the loop body: the line lines[i] becomes, and whether
\* its successor was merged into it (i is Python's 0-based index)
logical_line(lines, i) ==
    LET current_line == strip(lines[i + 1])
    IN  IF current_line # <<>> /\ i + 1 < Len(lines) /\ starts_with_suffix(strip(lines[i + 2]))
        THEN [ text |-> current_line \o << " " >> \o strip(lines[i + 2]), merged |-> TRUE ]
        ELSE [ text |-> current_line, merged |-> FALSE ]

\* Lines 168-176: the rows one logical line appends to names
name_rows(current_line, page) ==
    LET entities == detect_entity_boundaries(current_line)
        kept == SelectSeq(entities, LAMBDA e : e # <<>>)
    IN  [ k \in 1..Len(kept) |-> [ name |-> kept[k], page |-> page, original_name |-> kept[k] ] ]

(***************************************************************************)
(* The comma-first splitters on their own: one call of                     *)
(* split_on_commas_and_patterns or smart_split on a text.                  *)
(***************************************************************************)
VARIABLES
    text,        \* the argument
    called,      \* "" before the call, then the function called
    aggressive,  \* smart_split's flag
    entities     \* None before the call, then Some(the list returned)

splitVars == << text, called, aggressive, entities >>

\* Bound of the splitters' inputs: the number of chunks a text is made of
MaxChunks == 4

\* "Chamber Of Commerce"
ChamberOfCommerce ==
    << "C", "h", "a", "m", "b", "e", "r", " ", "O", "f", " ", "C", "o",
       "m", "m", "e", "r", "c", "e" >>

\* "Building Congress"
BuildingCongress ==
    << "B", "u", "i", "l", "d", "i", "n", "g", " ", "C", "o", "n", "g",
       "r", "e", "s", "s" >>

\* "New York"
NewYork ==
    << "N", "e", "w", " ", "Y", "o", "r", "k" >>

\* "Delaware State Chamber Of Commerce, New York Building Congress"
DelawareText ==
    << "D", "e", "l", "a", "w", "a", "r", "e", " ", "S", "t", "a", "t",
       "e", " ", "C", "h", "a", "m", "b", "e", "r", " ", "O", "f", " ",
       "C", "o", "m", "m", "e", "r", "c", "e", ",", " ", "N", "e", "w",
       " ", "Y", "o", "r", "k", " ", "B", "u", "i", "l", "d", "i", "n",
       "g", " ", "C", "o", "n", "g", "r", "e", "s", "s" >>

\* "Delaware State Chamber Of Commerce"
DelawareFirst ==
    << "D", "e", "l", "a", "w", "a", "r", "e", " ", "S", "t", "a", "t",
       "e", " ", "C", "h", "a", "m", "b", "e", "r", " ", "O", "f", " ",
       "C", "o", "m", "m", "e", "r", "c", "e" >>

\* "New York Building Congress"
DelawareSecond ==
    << "N", "e", "w", " ", "Y", "o", "r", "k", " ", "B", "u", "i", "l",
       "d", "i", "n", "g", " ", "C", "o", "n", "g", "r", "e", "s", "s" >>

\* The chunks texts are made of: two organisation endings, a name that ends
\* in no pattern, the comma and the space
SplitChunks == { ChamberOfCommerce, BuildingCongress, NewYork, << "," >>, << " " >> }

\* All concatenations of at most n chunks
RECURSIVE Concatenations(_, _)
Concatenations(chunks, n) ==
    IF n = 0 THEN { <<>> }
    ELSE LET shorter == Concatenations(chunks, n - 1)
         IN  shorter \cup { t \o c : t \in shorter, c \in chunks }

SplitTexts == Concatenations(SplitChunks, MaxChunks) \cup { DelawareText }

SplitInit ==
    /\ text \in SplitTexts
    /\ called = ""
    /\ aggressive = FALSE
    /\ entities = None

SplitIdle ==
    /\ text = <<>>
    /\ called = "idle"
    /\ aggressive = FALSE
    /\ entities = None

\* advanced_entity_detection.py:16-30
CallSplitOnCommasAndPatterns ==
    /\ called = ""
    /\ called' = "split_on_commas_and_patterns"
    /\ entities' = Some(split_on_commas_and_patterns(text))
    /\ UNCHANGED << text, aggressive >>

\* advanced_entity_detection.py:114-136
CallSmartSplit ==
    /\ called = ""
    /\ called' = "smart_split"
    /\ \E a \in BOOLEAN :
         /\ aggressive' = a
         /\ entities' = Some(smart_split(text, a))
    /\ UNCHANGED text

SplitNext == CallSplitOnCommasAndPatterns \/ CallSmartSplit

(***************************************************************************)
(* extract_names_from_pdf as a loop over the pages and their lines.  The   *)
(* pages' texts are what pdfplumber's extract_text returned.               *)
(***************************************************************************)
VARIABLES
    pdf,       \* the texts of the pages
    page_num,  \* the page of the for loop, 0 before the first
    ppc,       \* "pages": between pages, "lines": in the while loop, "done"
    lines,     \* text.split('\n') of the page
    line_i,    \* i, the index of the while loop
    names,     \* the rows appended so far
    visited    \* history: each line the loop passed, and as what

pdfVars == << pdf, page_num, ppc, lines, line_i, names, visited >>

\* Bound of the pages: the number of lines of a page
MaxLines == 3

\* "Acme Technologies"
AcmeTechnologies ==
    << "A", "c", "m", "e", " ", "T", "e", "c", "h", "n", "o", "l", "o",
       "g", "i", "e", "s" >>

\* "Limited"
Limited == << "L", "i", "m", "i", "t", "e", "d" >>

\* " Ltd. "
PaddedLtd == << " ", "L", "t", "d", ".", " " >>

\* "ABC Group Zeta": two names on a line, which starts with the suffix "AB"
AbcGroupZeta ==
    << "A", "B", "C", " ", "G", "r", "o", "u", "p", " ", "Z", "e", "t", "a" >>

\* The lines pages are made of: a name, two suffixes, a line of two names and
\* a line of white space
LineChoices == { AcmeTechnologies, Limited, PaddedLtd, AbcGroupZeta, << " " >> }

\* '\n'.join(ls)
RECURSIVE join_newline(_)
join_newline(ls) ==
    IF Len(ls) = 1 THEN ls[1]
    ELSE ls[1] \o << "\n" >> \o join_newline(Tail(ls))

PageTexts ==
    { join_newline(ls) : ls \in UNION { [ 1..n -> LineChoices ] : n \in 1..MaxLines } }

\* A file of one page, or of two pages: a page of one line, and a page that
\* is empty or a suffix
PdfFiles ==
    { << p >> : p \in PageTexts } \cup { << p, q >> : p \in LineChoices, q \in { <<>>, Limited } }

PdfInit ==
    /\ pdf \in PdfFiles
    /\ page_num = 0
    /\ ppc = "pages"
    /\ lines = <<>>
    /\ line_i = 0
    /\ names = <<>>
    /\ visited = <<>>

PdfIdle ==
    /\ pdf = <<>>
    /\ page_num = 0
    /\ ppc = "idle"
    /\ lines = <<>>
    /\ line_i = 0
    /\ names = <<>>
    /\ visited = <<>>

\* app.py:145-151: the next page; a page without text is passed over
NextPage ==
    /\ ppc = "pages"
    /\ page_num < Len(pdf)
    /\ page_num' = page_num + 1
    /\ IF pdf[page_num + 1] # <<>>
       THEN /\ lines' = split_newline(pdf[page_num + 1])
            /\ line_i' = 0
            /\ ppc' = "lines"
       ELSE UNCHANGED << lines, line_i, ppc >>
    /\ UNCHANGED << pdf, names, visited >>

\* app.py:152-178: one iteration of the while loop
ProcessLine ==
    /\ ppc = "lines"
    /\ line_i < Len(lines)
    /\ LET l == logical_line(lines, line_i)
       IN  IF l.text # <<>>
           THEN /\ names' = names \o name_rows(l.text, page_num)
                /\ line_i' = (IF l.merged THEN line_i + 1 ELSE line_i) + 1
                /\ visited' = visited
                     \o << [ page |-> page_num, line |-> line_i, as |-> "start", text |-> l.text ] >>
                     \o (IF l.merged
                         THEN << [ page |-> page_num, line |-> line_i + 1, as |-> "successor",
                                   text |-> <<>> ] >>
                         ELSE <<>>)
           ELSE /\ line_i' = line_i + 1
                /\ visited' = visited
                     \o << [ page |-> page_num, line |-> line_i, as |-> "blank", text |-> <<>> ] >>
                /\ UNCHANGED names
    /\ UNCHANGED << pdf, page_num, ppc, lines >>

\* app.py:152: the while loop ends
EndPage ==
    /\ ppc = "lines"
    /\ line_i >= Len(lines)
    /\ ppc' = "pages"
    /\ UNCHANGED << pdf, page_num, lines, line_i, names, visited >>

\* app.py:180
ReturnNames ==
    /\ ppc = "pages"
    /\ page_num = Len(pdf)
    /\ ppc' = "done"
    /\ UNCHANGED << pdf, page_num, lines, line_i, names, visited >>

PdfNext == NextPage \/ ProcessLine \/ EndPage \/ ReturnNames

(***************************************************************************)
(* The segmentation entry points on their own: one call of a detector or   *)
(* a splitter on a text (the variables are those of the splitters).        *)
(***************************************************************************)
\* Bound of the detectors' inputs: the number of chunks a text is made of
MaxWords == 3

\* "Foundation": a keyword of every copy of the pattern table
Foundation == << "F", "o", "u", "n", "d", "a", "t", "i", "o", "n" >>

\* The chunks texts are made of: a keyword, a corporate suffix, a lower-case
\* word, a short capitalised word and the space
DetectChunks ==
    { Foundation, << "I", "n", "c" >>, << "b", "i", "l", "l" >>, << "A", "b" >>, << " " >> }

\* All-caps words that begin with the letters of a corporate suffix
AGENCY == << "A", "G", "E", "N", "C", "Y" >>

INCLUSIVE == << "I", "N", "C", "L", "U", "S", "I", "V", "E" >>

DetectExamples == { AGENCY, INCLUSIVE }

DetectTexts == Concatenations(DetectChunks, MaxWords) \cup DetectExamples

DetectInit ==
    /\ text \in DetectTexts
    /\ called = ""
    /\ aggressive = FALSE
    /\ entities = None

\* app.py:52-138
CallDetectEntityBoundaries ==
    /\ called = ""
    /\ called' = "detect_entity_boundaries"
    /\ entities' = Some(detect_entity_boundaries(text))
    /\ UNCHANGED << text, aggressive >>

\* advanced_entity_detection.py:32-74
CallDetectByPatterns ==
    /\ called = ""
    /\ called' = "detect_by_patterns"
    /\ entities' = Some(detect_by_patterns(text))
    /\ UNCHANGED << text, aggressive >>

\* advanced_entity_detection.py:76-112, min_entity_length at its default
CallDetectByCapitalization ==
    /\ called = ""
    /\ called' = "detect_by_capitalization"
    /\ entities' = Some(detect_by_capitalization(text, 10))
    /\ UNCHANGED << text, aggressive >>

\* test_entity_detection.py:15-83
CallTestDetectEntityBoundaries ==
    /\ called = ""
    /\ called' = "test_detect_entity_boundaries"
    /\ entities' = Some(test_detect_entity_boundaries(text))
    /\ UNCHANGED << text, aggressive >>

DetectNext ==
    \/ CallDetectEntityBoundaries
    \/ CallDetectByPatterns
    \/ CallDetectByCapitalization
    \/ CallTestDetectEntityBoundaries
    \/ CallSplitOnCommasAndPatterns
    \/ CallSmartSplit

(***************************************************************************)
(* NameCleaner on its own: one call of one of its methods on a name.       *)
(***************************************************************************)
VARIABLES
    given_name,  \* the argument
    cleaner,     \* "" before the call, then the method called
    cleaned      \* None before the call, then Some(the string returned)

cleanVars == << given_name, cleaner, cleaned >>

\* Bound of the cleaner's inputs: the number of chunks a name is made of
MaxParts == 3

\* The chunks names are made of: letters, the space, the ampersand, a comma
\* before a space, a suffix and a geographic indicator
CleanChunks ==
    { << "a" >>, << "A" >>, << "S" >>, << " " >>, << "&" >>, << ",", " " >>,
      << "C", "o" >>, << "(", "U", "K", ")" >> }

\* "AT&T", "Marks &Spencer", "Amazon.com, Inc." and "a &co b"
CleanExamples ==
    { << "A", "T", "&", "T" >>,
      << "M", "a", "r", "k", "s", " ", "&", "S", "p", "e", "n", "c", "e", "r" >>,
      << "A", "m", "a", "z", "o", "n", ".", "c", "o", "m", ",", " ", "I", "n", "c", "." >>,
      << "a", " ", "&", "c", "o", " ", "b" >> }

CleanNames == Concatenations(CleanChunks, MaxParts) \cup CleanExamples

CleanInit ==
    /\ given_name \in CleanNames
    /\ cleaner = ""
    /\ cleaned = None

CleanIdle ==
    /\ given_name = <<>>
    /\ cleaner = "idle"
    /\ cleaned = None

\* name_cleaner.py:54-72
CallNormalizeName ==
    /\ cleaner = ""
    /\ cleaner' = "normalize_name"
    /\ cleaned' = Some(normalize_name(given_name))
    /\ UNCHANGED given_name

\* name_cleaner.py:74-82
CallRemoveLegalSuffixes ==
    /\ cleaner = ""
    /\ cleaner' = "remove_legal_suffixes"
    /\ cleaned' = Some(remove_legal_suffixes(given_name))
    /\ UNCHANGED given_name

\* name_cleaner.py:84-92
CallRemoveNoiseWords ==
    /\ cleaner = ""
    /\ cleaner' = "remove_noise_words"
    /\ cleaned' = Some(remove_noise_words(given_name))
    /\ UNCHANGED given_name

\* name_cleaner.py:94-109
CallExtractCoreName ==
    /\ cleaner = ""
    /\ cleaner' = "extract_core_name"
    /\ cleaned' = Some(extract_core_name(given_name))
    /\ UNCHANGED given_name

CleanNext ==
    \/ CallNormalizeName
    \/ CallRemoveLegalSuffixes
    \/ CallRemoveNoiseWords
    \/ CallExtractCoreName

(***************************************************************************)
(* Specifications: one per component, the others idle.                     *)
(***************************************************************************)
vars == << batchVars, scoreVars, splitVars, pdfVars, cleanVars >>

\* A batch that is not run
BatchIdle ==
    /\ impl = "process_names"
    /\ api = OPENCORPORATES
    /\ min_similarity = 80
    /\ df = <<>>
    /\ unique_names = <<>>
    /\ idx = 0
    /\ pc = "idle"
    /\ matches = None
    /\ results = <<>>
    /\ progress = <<>>
    /\ events = <<>>
    /\ lookups = <<>>
    /\ outcome = <<>>

Init == BatchInit /\ ScoreIdle /\ SplitIdle /\ PdfIdle /\ CleanIdle

Next == BatchNext /\ UNCHANGED << scoreVars, splitVars, pdfVars, cleanVars >>

\* process_names / match_names
Spec == Init /\ [][Next]_vars

SpecScoreInit == ScoreInit /\ BatchIdle /\ SplitIdle /\ PdfIdle /\ CleanIdle

SpecScoreNext == ScoreNext /\ UNCHANGED << batchVars, splitVars, pdfVars, cleanVars >>

\* calculate_similarity / calculate_string_distance
SpecScore == SpecScoreInit /\ [][SpecScoreNext]_vars

SpecSplitInit == SplitInit /\ BatchIdle /\ ScoreIdle /\ PdfIdle /\ CleanIdle

SpecSplitNext == SplitNext /\ UNCHANGED << batchVars, scoreVars, pdfVars, cleanVars >>

\* split_on_commas_and_patterns / smart_split
SpecSplit == SpecSplitInit /\ [][SpecSplitNext]_vars

SpecPdfInit == PdfInit /\ BatchIdle /\ ScoreIdle /\ SplitIdle /\ CleanIdle

SpecPdfNext == PdfNext /\ UNCHANGED << batchVars, scoreVars, splitVars, cleanVars >>

\* extract_names_from_pdf
SpecPdf == SpecPdfInit /\ [][SpecPdfNext]_vars

SpecDetectInit == DetectInit /\ BatchIdle /\ ScoreIdle /\ PdfIdle /\ CleanIdle

SpecDetectNext == DetectNext /\ UNCHANGED << batchVars, scoreVars, pdfVars, cleanVars >>

\* the detectors and the splitters
SpecDetect == SpecDetectInit /\ [][SpecDetectNext]_vars

SpecCleanInit == CleanInit /\ BatchIdle /\ ScoreIdle /\ SplitIdle /\ PdfIdle

SpecCleanNext == CleanNext /\ UNCHANGED << batchVars, scoreVars, splitVars, pdfVars >>

\* NameCleaner
SpecClean == SpecCleanInit /\ [][SpecCleanNext]_vars

(***************************************************************************)
(* Properties of the batch.                                                *)
(***************************************************************************)
Keys == Range(lower_names(df))

NoDuplicates(s) == \A i, j \in DOMAIN s : i # j => s[i] # s[j]

\* The result rows of one key, in the order they were appended
RowsOfKey(name) == SelectSeq(results, LAMBDA r : lower(r.original_name) = name)

AllNone(r) ==
    /\ r.matched_name = None
    /\ r.similarity_score = None
    /\ r.company_number = None
    /\ r.source = None

\* The iterations whose rows have been appended
Expanded == { j \in DOMAIN outcome : j <= idx \/ pc = "sleep" }

C2_RowPerOccurrence == pc = "done" => Len(results) = Len(df)

\* C3: a finished batch lists its result rows in the order of the input rows.
C3_OccurrenceOrder ==
    pc = "done" =>
        \A i, j \in DOMAIN results : i < j => results[i].page < results[j].page

\* C4: a row of a key whose record scored below min_similarity carries no
\* matched name and no registry field.
C4_HardCutoff ==
    \A i \in DOMAIN results : \A j \in DOMAIN outcome :
        ( /\ outcome[j].name = lower(results[i].original_name)
          /\ outcome[j].matches # None
          /\ ~MeetsThreshold(calculate_similarity(Some(outcome[j].name),
                                                  outcome[j].matches[1].name),
                             min_similarity) )
        => /\ results[i].matched_name = None
           /\ results[i].company_number = None
           /\ results[i].source = None

\* C5: in every result row matched_name is None exactly when similarity_score
\* is None, and a score that is present is not negative.
C5_NameIffScore ==
    \A i \in DOMAIN results :
        /\ (results[i].matched_name = None) <=> (results[i].similarity_score = None)
        /\ results[i].similarity_score # None => results[i].similarity_score[1] >= 0

\* C6: a lookup that raises never aborts the batch; the rows of its key are
\* one all-None row per occurrence; every key is still searched; and the rows
\* of each key are those its own lookup's answer determines, whatever happened
\* to the lookups of the other keys.
C6_LookupFailureIsolated ==
    /\ pc # "raised"
    /\ \A j \in Expanded :
         LET rows == RowsOfKey(outcome[j].name)
         IN  /\ outcome[j].raised =>
                  /\ Len(rows) = Len(original_rows(df, outcome[j].name))
                  /\ \A i \in DOMAIN rows : AllNone(rows[i])
             /\ rows = expand_rows(df, outcome[j].name, outcome[j].matches, min_similarity)
    /\ pc = "done" => Len(outcome) = Cardinality(Keys)

C6_Witness ==
    /\ pc = "done"
    /\ impl = "process_names"
    /\ \E j \in DOMAIN outcome : outcome[j].raised
    /\ \E j \in DOMAIN outcome : ~outcome[j].raised /\ outcome[j].matches # None
    /\ \E i \in DOMAIN results : results[i].company_number # None
    /\ \E i \in DOMAIN results : AllNone(results[i])

\* C7: no registry lookup is issued under a min_similarity outside 0..100.
C7_ThresholdValidated == lookups # <<>> => min_similarity \in 0..100

(***************************************************************************)
(* Properties of the scorer.                                               *)
(***************************************************************************)
\* C8: the score of x against x is 100 for every non-empty x (whitespace-only
\* and punctuation-only x included), it is 0 when either argument is empty or
\* None, and in general it is 0.4*ratio + 0.3*partial_ratio + 0.3*token_sort_ratio
\* of the lower-cased, trimmed arguments and lies in 0..100 (in tenths: 0..1000).
C8_SelfSimilarityAndRange ==
    similarity # None =>
        LET score == similarity[1]
        IN  /\ score \in 0..1000
            /\ (Falsy(str1) \/ Falsy(str2)) => score = 0
            /\ (~Falsy(str1) /\ str1 = str2) => score = 1000
            /\ (~Falsy(str1) /\ ~Falsy(str2)) =>
                 LET s1 == strip(lower(str1[1]))
                     s2 == strip(lower(str2[1]))
                 IN  10 * score = 40 * ratio(s1, s2) + 30 * partial_ratio(s1, s2)
                                  + 30 * token_sort_ratio(s1, s2)

\* x is only whitespace: after strip() both measures compare "" with ""
C8_Witness ==
    /\ str1 = Some(<<" ", " ">>)
    /\ str2 = str1
    /\ similarity = Some(1000)

(***************************************************************************)
(* Properties of the comma-first splitters.                                *)
(***************************************************************************)
IsSubstring(seg, piece) ==
    \E i \in 0..(Len(piece) - Len(seg)) : Slice(piece, i, i + Len(seg)) = seg

\* Whether the segments can be dealt to the pieces in order: each segment a
\* contiguous part of its piece, no segment of a later piece before one of an
\* earlier piece
RECURSIVE InPieceOrder(_, _)
InPieceOrder(segs, pieces) ==
    IF segs = <<>> THEN TRUE
    ELSE IF pieces = <<>> THEN FALSE
    ELSE \/ IsSubstring(Head(segs), Head(pieces)) /\ InPieceOrder(Tail(segs), pieces)
         \/ InPieceOrder(segs, Tail(pieces))

LinesOfPage(p) == IF pdf[p] = <<>> THEN <<>> ELSE split_newline(pdf[p])

\* The number of lines of page p the loop has passed
PassedOfPage(p) ==
    IF p < page_num \/ (p = page_num /\ ppc # "lines") THEN Len(LinesOfPage(p))
    ELSE IF p = page_num THEN line_i
    ELSE 0

\* Whether line k (0-based) of the lines ls is non-blank and followed by a
\* line whose trimmed text starts with an entry of COMMON_SUFFIXES
FollowedBySuffix(ls, k) ==
    /\ strip(ls[k + 1]) # <<>>
    /\ k + 1 < Len(ls)
    /\ \E s \in Range(COMMON_SUFFIXES) :
          LET next == strip(ls[k + 2])
          IN  Len(s) <= Len(next) /\ \A c \in 1..Len(s) : next[c] = s[c]

\* The logical lines, in order: the texts of the visits as a start
LogicalLines == SelectSeq(visited, LAMBDA v : v.as = "start")

\* C10: a line of a page is passed exactly once, as the start of a logical
\* line, as a merged successor or as a blank line, and the lines ahead of
\* the loop not at all.  A non-blank line that starts a logical line and is
\* followed by a line whose trimmed text starts with an entry of
\* COMMON_SUFFIXES is joined with that line's trimmed text by exactly one
\* space, and the successor is passed as merged, not as a start; no other
\* line is merged.  The candidates are those boundary detection finds in the
\* logical lines, and "Acme Technologies" followed by "Limited" gives the
\* single candidate "Acme Technologies Limited".
C10_LineMerge ==
    /\ \A p \in DOMAIN pdf : \A k \in 0..(Len(LinesOfPage(p)) - 1) :
          Cardinality({ n \in DOMAIN visited : visited[n].page = p /\ visited[n].line = k })
            = IF k < PassedOfPage(p) THEN 1 ELSE 0
    /\ \A n \in DOMAIN visited :
          LET v == visited[n]
              ls == LinesOfPage(v.page)
          IN  /\ v.line < Len(ls)
              /\ v.as = "blank" => strip(ls[v.line + 1]) = <<>>
              /\ v.as = "start" =>
                    IF FollowedBySuffix(ls, v.line)
                    THEN /\ v.text = strip(ls[v.line + 1]) \o << " " >> \o strip(ls[v.line + 2])
                         /\ n < Len(visited)
                         /\ visited[n + 1].as = "successor"
                         /\ visited[n + 1].page = v.page
                         /\ visited[n + 1].line = v.line + 1
                    ELSE /\ v.text = strip(ls[v.line + 1])
                         /\ v.text # <<>>
                         /\ n < Len(visited) => visited[n + 1].as # "successor"
              /\ v.as = "successor" => n > 1 /\ visited[n - 1].as = "start"
    /\ names = Flatten([ n \in 1..Len(LogicalLines) |->
                           name_rows(LogicalLines[n].text, LogicalLines[n].page) ])
    /\ (pdf = << AcmeTechnologies \o << "\n" >> \o Limited >> /\ ppc = "done") =>
          names = << [ name |-> AcmeTechnologies \o << " " >> \o Limited,
                       page |-> 1,
                       original_name |-> AcmeTechnologies \o << " " >> \o Limited ] >>

\* C10 as stated: every non-blank line that is followed by a line whose
\* trimmed text starts with an entry of COMMON_SUFFIXES is joined with it and
\* the successor consumed, whether or not the line was itself merged into
\* the line before it.  Of "Acme Technologies", "Limited", " Ltd. " the
\* second line is consumed by the first, and the third starts a logical line
\* of its own.
C10_EverySuffixLineMerged ==
    \A n \in DOMAIN visited :
        LET v == visited[n]
        IN  (v.line >= 1 /\ FollowedBySuffix(LinesOfPage(v.page), v.line - 1))
               => v.as = "successor"

\* "Acme Technologies" followed by "Limited" has been read to the end
C10_Witness ==
    /\ pdf = << AcmeTechnologies \o << "\n" >> \o Limited >>
    /\ ppc = "done"
    /\ Len(names) = 1
    /\ visited = << [ page |-> 1, line |-> 0, as |-> "start",
                      text |-> AcmeTechnologies \o << " " >> \o Limited ],
                    [ page |-> 1, line |-> 1, as |-> "successor", text |-> <<>> ] >>

(***************************************************************************)
(* Properties of the detectors and the splitters.                          *)
(***************************************************************************)
\* The list a call returned
Returned_entities == entities[1]

\* The three detectors of the application (the test file's copy aside)
Detectors == { "detect_entity_boundaries", "detect_by_patterns", "detect_by_capitalization" }

\* C11: for an empty or whitespace-only text, each of the five segmentation
\* entry points returns the empty list.
C11_EmptyInputNoCandidates ==
    (/\ entities # None
     /\ called \in Detectors \cup { "split_on_commas_and_patterns", "smart_split" }
     /\ strip(text) = <<>>)
        => Returned_entities = <<>>

\* C12: every candidate the detectors and smart_split return is trimmed and
\* longer than 3 characters, whatever the text.
C12_CandidatesTrimmedAndLong ==
    (entities # None /\ called \in Detectors \cup { "smart_split" })
        => \A k \in DOMAIN Returned_entities :
              /\ strip(Returned_entities[k]) = Returned_entities[k]
              /\ Len(Returned_entities[k]) > 3

\* Whether the detector called accepts no boundary offset in the text
NoBoundaryAccepted ==
    CASE called = "detect_entity_boundaries" -> EntityEnds(app_org_endings, text) = {}
      [] called = "detect_by_patterns" -> EntityEnds(adv_org_endings, text) = {}
      [] called = "detect_by_capitalization" ->
            \A p \in 0..Len(text) :
                LET m == CapitalizedAt(text, p)
                IN  m # <<>> => m[1].end - m[1].start < 3

\* C13: a detector never returns the empty list for a non-empty text, also
\* when every slice is discarded as too short, and when it accepts no
\* boundary offset it returns the list of the text alone, unchanged.
C13_IdentityFallback ==
    (entities # None /\ called \in Detectors /\ text # <<>>)
        => /\ Returned_entities # <<>>
           /\ NoBoundaryAccepted => Returned_entities = << text >>

\* "Inc Ab": the boundary after "Inc" is accepted, both slices are too short,
\* and detect_entity_boundaries falls back to the text
C13_Witness ==
    /\ text = << "I", "n", "c", " ", "A", "b" >>
    /\ called = "detect_entity_boundaries"
    /\ EntityEnds(app_org_endings, text) = { 3 }
    /\ entities = Some(<< text >>)

\* Whether the segments are the contents (trimmed when trimmed is TRUE, as
\* they stand otherwise) of spans [a, b) of t that follow one another from
\* offset from on without overlap
RECURSIVE InSpanOrder(_, _, _, _)
InSpanOrder(segs, t, from, trimmed) ==
    IF segs = <<>> THEN TRUE
    ELSE \E a \in from..Len(t) : \E b \in a..Len(t) :
            /\ Head(segs) = (IF trimmed THEN strip(Slice(t, a, b)) ELSE Slice(t, a, b))
            /\ InSpanOrder(Tail(segs), t, b, trimmed)

BoundaryRule(t, p) ==
    \/ p = Len(t)
    \/ \E j \in (p + 1)..Len(t) :
          /\ isupper(t[j])
          /\ \A k \in (p + 1)..(j - 1) : isspace(t[k])

\* The pattern table of the copy of the detector that was called
TableCalled ==
    CASE called = "detect_entity_boundaries" -> app_org_endings
      [] called = "detect_by_patterns" -> adv_org_endings
      [] called = "test_detect_entity_boundaries" -> test_org_endings

\* Whether the segments are trimmed slices of t cut only at offsets of E
RECURSIVE CutOnlyAt(_, _, _, _)
CutOnlyAt(segs, t, from, E) ==
    IF segs = <<>> THEN TRUE
    ELSE \E a \in { 0 } \cup E : \E b \in E \cup { Len(t) } :
            /\ from <= a
            /\ a <= b
            /\ Head(segs) = strip(Slice(t, a, b))
            /\ CutOnlyAt(Tail(segs), t, b, E)

\* C20: in every copy of the pattern-based detector the text is cut only at
\* match ends that are the end of the text or are followed, after optional
\* spaces, by an upper-case character; a match followed by a lower-case
\* word or by trailing whitespace alone cuts nothing.
C20_BoundaryRule ==
    (/\ entities # None
     /\ called \in { "detect_entity_boundaries", "detect_by_patterns",
                     "test_detect_entity_boundaries" })
        => \/ Returned_entities = << text >>
           \/ CutOnlyAt(Returned_entities, text, 0,
                        { p \in MatchEnds(TableCalled, text) : BoundaryRule(text, p) })

\* C20 for the two copies the application runs
C20_BoundaryRuleInApplication ==
    called \in { "detect_entity_boundaries", "detect_by_patterns" } => C20_BoundaryRule

\* C21: detect_by_patterns and the detect_entity_boundaries of app.py are one
\* detection: on every text the list one of them returns is the list the
\* other computes.
C21_SameSegments ==
    (entities # None /\ called \in { "detect_entity_boundaries", "detect_by_patterns" })
        => Returned_entities =
              (IF called = "detect_by_patterns"
               THEN detect_entity_boundaries(text)
               ELSE detect_by_patterns(text))

\* Whether offset p of t lies inside a word: the characters on its two
\* sides, t[p-1] and t[p] in the offsets of the code, are both letters
InsideWord(t, p) ==
    /\ 1 <= p
    /\ p < Len(t)
    /\ t[p] \in LetterSet
    /\ t[p + 1] \in LetterSet

\* C23: no boundary offset that detect_entity_boundaries of app.py or
\* detect_by_patterns accepts lies inside a word, and so no segment they
\* return begins or ends in the middle of a word of the text.
C23_NoBoundaryInsideWord ==
    (entities # None /\ called \in { "detect_entity_boundaries", "detect_by_patterns" })
        => \A p \in EntityEnds(TableCalled, text) : ~InsideWord(text, p)

(***************************************************************************)
(* Properties of NameCleaner.                                              *)
(***************************************************************************)
\* C15: the string normalize_name returns contains no '&'.
C15_NoAmpersand ==
    (cleaner = "normalize_name" /\ cleaned # None) => "&" \notin Range(cleaned[1])

\* C16: the string normalize_name returns has no upper-case letter, no
\* leading or trailing whitespace and no two whitespace characters in a row,
\* and is empty for the empty name.
C16_WhitespaceCollapsed ==
    (cleaner = "normalize_name" /\ cleaned # None) =>
        LET r == cleaned[1]
        IN  /\ \A k \in DOMAIN r : ~isupper(r[k])
            /\ r # <<>> => ~isspace(r[1]) /\ ~isspace(r[Len(r)])
            /\ \A k \in 1..(Len(r) - 1) : ~(isspace(r[k]) /\ isspace(r[k + 1]))
            /\ given_name = <<>> => r = <<>>

\* C17: no pattern of LEGAL_SUFFIXES matches the string remove_legal_suffixes
\* returns, and removing the suffixes from it again changes nothing.
C17_SuffixFixedPoint ==
    (cleaner = "remove_legal_suffixes" /\ cleaned # None) =>
        /\ \A k \in DOMAIN LEGAL_SUFFIXES : finditer(LEGAL_SUFFIXES[k], cleaned[1]) = <<>>
        /\ remove_legal_suffixes(cleaned[1]) = cleaned[1]

\* C18: extract_core_name applied to a string it returned returns that
\* string.
C18_CoreNameIdempotent ==
    (cleaner = "extract_core_name" /\ cleaned # None) =>
        extract_core_name(cleaned[1]) = cleaned[1]

\* ---------------------------------------------------------------------
\* Progress reporting of the batch loop
\* ---------------------------------------------------------------------

\* C19: the reports of a batch are 1, 2, ..., total in this order, one per
\* distinct key and each one more than the report before it, every report
\* carries the number of distinct keys as its total and none exceeds it;
\* when the batch returns, the last report has reached the total.
C19_ProgressMonotonic ==
    LET total == Len(unique(lower_names(df)))
    IN  /\ Len(progress) <= total
        /\ \A k \in DOMAIN progress :
              progress[k] = [ processed |-> k, total |-> total ]
        /\ pc \in { "search", "start", "idle" } => Len(progress) = idx
        /\ pc \in { "expand", "sleep", "raised" } => Len(progress) = idx + 1
        /\ pc = "done" => Len(progress) = total

\* A batch of two distinct keys has returned after the reports 1/2 and 2/2.
C19_Witness ==
    /\ pc = "done"
    /\ Len(unique_names) = 2
    /\ progress = << [ processed |-> 1, total |-> 2 ], [ processed |-> 2, total |-> 2 ] >>

\* ---------------------------------------------------------------------
\* Sequencing of the registry lookups
\* ---------------------------------------------------------------------

\* Whether the lookups were issued for the distinct keys in first-seen
\* order, each one answered before anything else happened
InFirstSeenOrder ==
    LET U == unique(lower_names(df))
        L == SelectSeq(events, LAMBDA e : e.ev = "lookup")
    IN  /\ Len(L) <= Len(U)
        /\ \A k \in DOMAIN L : L[k].name = U[k]
        /\ lookups = [ k \in DOMAIN L |-> L[k].name ]
        /\ (CallsRegistry /\ pc # "raised") => Len(outcome) = Len(L)

\* Whether, between the lookups at positions i < j of the history, the rows
\* of the key of i were appended and, where delayed is TRUE, the delay was
\* then taken
Between(i, j, delayed) ==
    \E r \in (i + 1)..(j - 1) :
        /\ events[r] = Event("rows", events[i].name)
        /\ delayed => \E d \in (r + 1)..(j - 1) : events[d] = Event("sleep", events[i].name)

\* C22 as stated: the lookups are issued one at a time in first-seen order
\* of the keys, and between any two lookups the rows of the earlier key are
\* appended and then the delay is taken, under every choice of registry.
C22_SequentialAndDelayed ==
    /\ InFirstSeenOrder
    /\ \A i, j \in DOMAIN events :
          (i < j /\ events[i].ev = "lookup" /\ events[j].ev = "lookup")
              => Between(i, j, TRUE)

\* C22 amended: the lookups are issued one at a time in first-seen order of
\* the keys and the rows of a key are appended before the next lookup is
\* issued; the delay is taken after every key in process_names and under the
\* OpenCorporates choice of match_names, and never under the Refinitiv and
\* the mock choices of match_names.
C22_SequentialDelayedWhereLimited ==
    LET limited == impl = "process_names" \/ api = UI_OPENCORPORATES
    IN  /\ InFirstSeenOrder
        /\ \A i, j \in DOMAIN events :
              (i < j /\ events[i].ev = "lookup" /\ events[j].ev = "lookup")
                  => Between(i, j, limited)
        /\ ~limited => \A k \in DOMAIN events : events[k].ev # "sleep"
        /\ (limited /\ pc \in { "search", "done" }) =>
              Len(SelectSeq(events, LAMBDA e : e.ev = "sleep")) = idx

\* A batch of two distinct keys under the OpenCorporates choice of
\* match_names has returned: lookup, rows and delay of the first key, then
\* lookup, rows and delay of the second
C22_Witness ==
    /\ pc = "done"
    /\ impl = "match_names"
    /\ api = UI_OPENCORPORATES
    /\ Len(unique_names) = 2
    /\ events = << Event("lookup", unique_names[1]), Event("rows", unique_names[1]),
                   Event("sleep", unique_names[1]),
                   Event("lookup", unique_names[2]), Event("rows", unique_names[2]),
                   Event("sleep", unique_names[2]) >>

=============================================================================
